---- MODULE Spec2Model ----
(***************************************************************************)
(* Model of the test harness in src/zed/src/test.rs:                       *)
(*   - Network<T, R>: the seeded message bus (inboxes, all_messages, rng)  *)
(*   - FakeServer: the in-process RPC server (connection, forbid flags)    *)
(*                                                                         *)
(* The PRNG field `rng` is not a variable: every `gen_range(lo..hi)` is a  *)
(* choice from lo..hi-1, and the values drawn in one call are collected in *)
(* the `draws` field of each outcome so that the dependence of the result  *)
(* on the draws can be stated.                                             *)
(***************************************************************************)
EXTENDS Integers, Sequences, FiniteSets, TLC

\* ---------------------------------------------------------------- bounds
MaxLog == 3      \* broadcasts stop when all_messages holds this many messages
MaxInbox == 4    \* only outcomes that keep every inbox within this length are taken
MaxPeers == 2    \* add_peer stops at this many registered replicas
MaxStreamLog == 2 \* with the history kept, broadcasts stop at this many messages

Replicas == {0, 1, 2}
Messages == {"x", "y"}
\* the `messages` arguments given to broadcast
MessageBatches == {<<>>, <<"y">>, <<"x", "y">>}

\* ---------------------------------------------------------------- state
VARIABLES
    inboxes,        \* Network.inboxes: BTreeMap<ReplicaId, Vec<Envelope<T>>>
    all_messages,   \* Network.all_messages: Vec<T>
    returned,       \* the value returned by the last Network call (<<>> for `()`)
    received,       \* history: per replica, the envelopes drained by its receive calls, in order
    broadcasters,   \* history: the sender of each element of all_messages
    connection,               \* FakeServer.connection: Option<Connection>, <<>> or <<c>>
    forbid_new_connections,   \* FakeServer.forbid_new_connections: AtomicBool
    forbid_reconnections,     \* FakeServer.forbid_reconnections: AtomicBool
    lock_holder,              \* the task that holds the `connection` mutex, 0 if none
    blocked,                  \* the task whose lock() blocks the executor thread, 0 if none
    peer_connections,         \* Peer: the connection ids it routes
    next_connection_id,       \* Peer: the next ConnectionId it hands out
    next_transport,           \* the next Conn::in_memory() transport
    killed,                   \* the transports whose kill sink has fired
    streams,                  \* per ConnectionId: the envelopes queued in its `incoming` stream
    task                      \* per task: the FakeServer call it runs and where it stands

netvars == <<inboxes, all_messages, returned, received, broadcasters>>
histvars == <<received, broadcasters>>
srvvars == <<connection, forbid_new_connections, forbid_reconnections, lock_holder, blocked,
             peer_connections, next_connection_id, next_transport, killed, streams, task>>
vars == <<inboxes, all_messages, returned, received, broadcasters,
          connection, forbid_new_connections, forbid_reconnections, lock_holder, blocked,
          peer_connections, next_connection_id, next_transport, killed, streams, task>>

\* Envelope { message, sender }.  `call` and `seq` are history fields: the
\* length of all_messages when the broadcast call that made the envelope
\* started, and the index in all_messages of the element it is a copy of.
Envelope(message, sender, call, seq) ==
    [message |-> message, sender |-> sender, call |-> call, seq |-> seq]

\* ---------------------------------------------------------------- helpers
Max(S) == CHOOSE x \in S : \A y \in S : y <= x

\* rng.gen_range(lo..hi): the values the PRNG can yield
gen_range(lo, hi) == lo .. (hi - 1)

\* Vec::insert(index, element), index 0-based
vec_insert(v, index, e) == SubSeq(v, 1, index) \o <<e>> \o SubSeq(v, index + 1, Len(v))

\* mutant: the drain removes one envelope more than it returns
drain_rest_skip(v, count) == SubSeq(v, count + 2, Len(v))

\* mutant: the prefix is read, not drained
drain_rest_whole(v, count) == v

\* Vec::drain(0..count): the removed prefix and what stays
drain_taken(v, count) == SubSeq(v, 1, count)
drain_rest(v, count) == SubSeq(v, count + 1, Len(v))

\* .map(|envelope| envelope.message).collect()
messages_of(v) == [i \in 1 .. Len(v) |-> v[i].message]

\* mutant: a map without a fixed iteration order (a HashMap)
iter_orders_any(keys) ==
    {f \in [1 .. Cardinality(keys) -> keys] : \A i, j \in 1 .. Cardinality(keys) : f[i] = f[j] => i = j}

\* BTreeMap iteration: keys in ascending order.  The set of orders in which
\* inboxes.iter_mut() can visit the keys (exactly one for a BTreeMap).
RECURSIVE ascending(_)
ascending(S) == IF S = {} THEN <<>>
                ELSE LET m == CHOOSE x \in S : \A y \in S : x <= y
                     IN <<m>> \o ascending(S \ {m})

iter_orders(keys) == {ascending(keys)}

\* mutant: the previous envelopes of the sender are ignored
min_index_zero(inbox, sender) == 0

\* mutant: the search is not reversed, the first envelope of the sender is found
min_index_first(inbox, sender) ==
    LET S == {i \in 1 .. Len(inbox) : inbox[i].sender = sender}
    IN IF S = {} THEN 0 ELSE CHOOSE x \in S : \A y \in S : x <= y

\* the position after the last envelope of `sender` (lines 69-80)
min_index(inbox, sender) ==
    LET S == {i \in 1 .. Len(inbox) : inbox[i].sender = sender}
    IN IF S = {} THEN 0 ELSE Max(S)

\* mutant: the sender is not skipped
is_receiver_any(replica, sender) == TRUE

\* line 67: the inbox of the sender is skipped
is_receiver(replica, sender) == replica # sender

\* mutant: a message may be dropped
copy_counts_from_zero == gen_range(0, 4)

\* line 84: the number of copies, gen_range(1..4)
copy_counts == gen_range(1, 4)

\* mutant: the whole inbox is never drained
drain_counts_short(inbox) == gen_range(0, Len(inbox))

\* line 106: the drain length, gen_range(0..inbox.len() + 1)
drain_counts(inbox) == gen_range(0, Len(inbox) + 1)

\* mutant: the batch is put in front of the log
extend_front(log, messages) == messages \o log

\* line 97: all_messages.extend(messages)
extend(log, messages) == log \o messages

\* mutant: min_index is computed anew before every copy
RECURSIVE insert_copies_recomputed(_, _, _, _)
insert_copies_recomputed(S, min, e, n) ==
    IF n = 0 THEN S
    ELSE insert_copies_recomputed(
            UNION {{[inbox |-> vec_insert(o.inbox, p, e), draws |-> Append(o.draws, p)]
                        : p \in gen_range(min_index(o.inbox, e.sender), Len(o.inbox) + 1)}
                    : o \in S},
            min, e, n - 1)

\* lines 84-93, the body of `for _ in 0..k`: n insertions, each at a drawn
\* index in min..=len.  S is a set of [inbox, draws] outcomes.
RECURSIVE insert_copies(_, _, _, _)
insert_copies(S, min, e, n) ==
    IF n = 0 THEN S
    ELSE insert_copies(
            UNION {{[inbox |-> vec_insert(o.inbox, p, e), draws |-> Append(o.draws, p)]
                        : p \in gen_range(min, Len(o.inbox) + 1)} : o \in S},
            min, e, n - 1)

\* lines 68-94 for one message: min_index once, k in 1..3, then k insertions.
\* Only the outcomes that keep the inbox within `cap` envelopes are produced
\* (cap is the model's bound on an inbox, not part of the program).
deliver_message(S, sender, message, base, i, cap) ==
    UNION {UNION {insert_copies({[inbox |-> o.inbox, draws |-> Append(o.draws, k)]},
                                min_index(o.inbox, sender),
                                Envelope(message, sender, base, base + i), k)
                    : k \in {n \in copy_counts : Len(o.inbox) + n <= cap}} : o \in S}

\* `for message in &messages` for one inbox; base = all_messages.len() before the call
RECURSIVE deliver_messages(_, _, _, _, _, _)
deliver_messages(S, sender, messages, i, base, cap) ==
    IF i > Len(messages) THEN S
    ELSE deliver_messages(deliver_message(S, sender, messages[i], base, i, cap),
                          sender, messages, i + 1, base, cap)

\* `for (replica, inbox) in self.inboxes.iter_mut()` along one visiting order.
\* S is a set of [inboxes, draws] outcomes.
RECURSIVE deliver_replicas(_, _, _, _, _, _, _)
deliver_replicas(S, order, j, sender, messages, base, cap) ==
    IF j > Len(order) THEN S
    ELSE LET replica == order[j]
             step(o) ==
                IF is_receiver(replica, sender)
                THEN {[inboxes |-> [o.inboxes EXCEPT ![replica] = q.inbox], draws |-> q.draws]
                        : q \in deliver_messages({[inbox |-> o.inboxes[replica], draws |-> o.draws]},
                                                 sender, messages, 1, base, cap)}
                ELSE {o}
         IN deliver_replicas(UNION {step(o) : o \in S}, order, j + 1, sender, messages, base, cap)

\* every outcome of broadcast(sender, messages) on the map `boxes`
broadcast_outcomes(boxes, sender, messages, base, cap) ==
    UNION {deliver_replicas({[inboxes |-> boxes, draws |-> <<>>]}, order, 1,
                            sender, messages, base, cap)
            : order \in iter_orders(DOMAIN boxes)}

\* every outcome of receive(receiver) on the map `boxes`
receive_outcomes(boxes, receiver) ==
    {[inboxes |-> [boxes EXCEPT ![receiver] = drain_rest(boxes[receiver], count)],
      taken |-> drain_taken(boxes[receiver], count),
      draws |-> <<count>>]
        : count \in drain_counts(boxes[receiver])}

\* ---------------------------------------------------------------- queries
\* Vec::is_empty
is_empty(v) == Len(v) = 0

\* mutant: Iterator::any in place of Iterator::all
RECURSIVE any_empty(_, _, _)
any_empty(boxes, order, j) ==
    IF j > Len(order) THEN FALSE
    ELSE IF is_empty(boxes[order[j]]) THEN TRUE
    ELSE any_empty(boxes, order, j + 1)

\* Iterator::all over the values, visited in key order, stopping at the first failure
RECURSIVE all_empty(_, _, _)
all_empty(boxes, order, j) ==
    IF j > Len(order) THEN TRUE
    ELSE IF is_empty(boxes[order[j]]) THEN all_empty(boxes, order, j + 1)
    ELSE FALSE

is_idle == all_empty(inboxes, ascending(DOMAIN inboxes), 1)

has_unreceived(receiver) == ~is_empty(inboxes[receiver])

\* ---------------------------------------------------------------- operations
\* Network::new
new ==
    /\ inboxes = <<>>
    /\ all_messages = <<>>
    /\ returned = <<>>
    /\ received = [r \in Replicas |-> <<>>]
    /\ broadcasters = <<>>

\* BTreeMap::insert(id, Vec::new()): adds the key or replaces its value
map_insert(boxes, id) == [r \in (DOMAIN boxes) \cup {id} |-> IF r = id THEN <<>> ELSE boxes[r]]

add_peer(id) ==
    /\ Cardinality((DOMAIN inboxes) \cup {id}) <= MaxPeers
    /\ inboxes' = map_insert(inboxes, id)
    /\ returned' = <<>>
    /\ UNCHANGED all_messages
    /\ UNCHANGED srvvars

broadcast(sender, messages) ==
    /\ Len(all_messages) + Len(messages) <= MaxLog
    /\ \E o \in broadcast_outcomes(inboxes, sender, messages, Len(all_messages), MaxInbox) :
          inboxes' = o.inboxes
    /\ all_messages' = extend(all_messages, messages)
    /\ returned' = <<>>
    /\ UNCHANGED srvvars

receive(receiver) ==
    /\ receiver \in DOMAIN inboxes
    /\ \E o \in receive_outcomes(inboxes, receiver) :
          /\ inboxes' = o.inboxes
          /\ returned' = messages_of(o.taken)
    /\ UNCHANGED all_messages
    /\ UNCHANGED srvvars

\* ================================================================ FakeServer
\* The calls of FakeServer run as tasks of one cooperative executor thread: a
\* task runs from one `.await` to the next without interruption, and other
\* tasks may run while it is suspended at an `.await`.  `connection` is a
\* parking_lot::Mutex: lock() on a held mutex blocks the thread itself.
MaxTransports == 2   \* Conn::in_memory() is called at most this many times

MaxIncoming == 1     \* an incoming stream queues at most this many envelopes

Tasks == {1, 2}
Tokens == {1, 2}

\* the ConnectionIds the peer can hand out: one per in-memory transport
ConnectionIds == 1 .. MaxTransports

\* the message types that travel: payload_type_name()
MessageKinds == {"Ping", "PingResponse"}

\* rpc::ConnectionOptions: the fields connect reads
ConnectionOptions == [is_reconnection : BOOLEAN, connection_token : Tokens]

NoOptions == [is_reconnection |-> FALSE, connection_token |-> 0]

\* the error and panic texts
ForbiddingConnections == "server is forbidding connections"
ForbiddingReconnections == "server is forbidding reconnections"
CannotReestablish == "cannot re-establish connection"
NotConnected == "panic: not connected"
ReconnectFailed == "peer.reconnect failed"
HungUp == "other half hung up"
UnexpectedType == "panic: fake server received unexpected message type"
SendFailed == "panic: peer.send failed"
RespondFailed == "panic: peer.respond failed"

\* mutant: "not connected" is handed back as an error value
Panics_but_not_connected == {UnexpectedType, SendFailed, RespondFailed}

\* the results that are panics: expect, unwrap, panic!
Panics == {NotConnected, UnexpectedType, SendFailed, RespondFailed}

\* struct Connection { id, incoming, token, kill_tx }
Connection(id, incoming, token, kill_tx) ==
    [id |-> id, incoming |-> incoming, token |-> token, kill_tx |-> kill_tx]

\* a task that runs no call
IdleTask == [pc |-> "idle", op |-> "none", opts |-> NoOptions, id |-> 0, kill_tx |-> 0,
             reconnected |-> FALSE, kind |-> "none", result |-> "none"]

\* FakeServer::for_client, lines 222-227: the server as constructed
for_client ==
    /\ connection = <<>>
    /\ forbid_new_connections = FALSE
    /\ forbid_reconnections = FALSE
    /\ lock_holder = 0
    /\ blocked = 0
    /\ peer_connections = {}
    /\ next_connection_id = 1
    /\ next_transport = 1
    /\ killed = {}
    /\ streams = [id \in ConnectionIds |-> <<>>]
    /\ task = [t \in Tasks |-> IdleTask]

Init == new /\ for_client

\* a panic aborts the test: nothing runs afterwards
Aborted == \E t \in Tasks : task[t].result \in Panics

\* the executor can start a call on task t
CanStart(t) == blocked = 0 /\ ~Aborted /\ task[t].pc \in {"idle", "done"}

\* the executor can resume task t, suspended at the await `at`
CanResume(t, at) == blocked = 0 /\ ~Aborted /\ task[t].pc = at

Finished(op, opts, result) ==
    [IdleTask EXCEPT !.pc = "done", !.op = op, !.opts = opts, !.result = result]

\* mutant: the new-connection path reads the other flag
new_connections_forbidden_other == forbid_reconnections

\* line 291: self.forbid_new_connections.load(SeqCst)
new_connections_forbidden == forbid_new_connections

\* mutant: the reconnection path reads the other flag
reconnections_forbidden_other == forbid_new_connections

\* line 272: self.forbid_reconnections.load(SeqCst)
reconnections_forbidden == forbid_reconnections

\* lines 276-278: connection.as_ref().map_or(false, |c| c.token == opts.connection_token)
token_matches(conn, opts) ==
    IF conn = <<>> THEN FALSE ELSE conn[1].token = opts.connection_token

\* the Connection that leaves the store is dropped, and with it the receiving
\* half of its incoming stream and what was queued there
drop_incoming(conn, queues) ==
    IF conn = <<>> THEN queues ELSE [queues EXCEPT ![conn[1].incoming] = <<>>]

\* Peer::reconnect(id, conn): fails when the peer does not route id
peer_reconnect_ok(id) == id \in peer_connections

\* lock() on the held mutex: the thread blocks, with task t inside the call
BlockOn(t, op, opts) ==
    /\ blocked' = t
    /\ task' = [task EXCEPT ![t] = [IdleTask EXCEPT !.pc = "blocked", !.op = op, !.opts = opts]]
    /\ UNCHANGED <<connection, forbid_new_connections, forbid_reconnections, lock_holder,
                   peer_connections, next_connection_id, next_transport, killed, streams>>

\* the call ends at once with `result`, nothing else changes
EndWith(t, op, opts, result) ==
    /\ task' = [task EXCEPT ![t] = Finished(op, opts, result)]
    /\ UNCHANGED <<connection, forbid_new_connections, forbid_reconnections, lock_holder,
                   blocked, peer_connections, next_connection_id, next_transport, killed,
                   streams>>

\* connect(opts), lines 270-306, up to its first await or its return
connect(t, opts) ==
    /\ CanStart(t)
    /\ UNCHANGED netvars
    /\ IF opts.is_reconnection
       THEN IF reconnections_forbidden
            THEN EndWith(t, "connect", opts, ForbiddingReconnections)
            ELSE IF lock_holder # 0
            THEN BlockOn(t, "connect", opts)
            ELSE IF token_matches(connection, opts)
            THEN \* Conn::in_memory(), peer.reconnect(connection.id, server_conn).await
                 /\ next_transport <= MaxTransports
                 /\ next_transport' = next_transport + 1
                 /\ lock_holder' = t
                 /\ task' = [task EXCEPT ![t] =
                        [IdleTask EXCEPT !.pc = "await_peer_reconnect", !.op = "connect",
                                         !.opts = opts, !.id = connection[1].id,
                                         !.kill_tx = next_transport,
                                         !.reconnected = peer_reconnect_ok(connection[1].id)]]
                 /\ UNCHANGED <<connection, forbid_new_connections, forbid_reconnections,
                                blocked, peer_connections, next_connection_id, killed, streams>>
            ELSE EndWith(t, "connect", opts, CannotReestablish)
       ELSE IF new_connections_forbidden
            THEN EndWith(t, "connect", opts, ForbiddingConnections)
            ELSE \* Conn::in_memory(), peer.connect(server_conn).await
                 /\ next_transport <= MaxTransports
                 /\ next_transport' = next_transport + 1
                 /\ next_connection_id' = next_connection_id + 1
                 /\ peer_connections' = peer_connections \cup {next_connection_id}
                 /\ task' = [task EXCEPT ![t] =
                        [IdleTask EXCEPT !.pc = "await_peer_connect", !.op = "connect",
                                         !.opts = opts, !.id = next_connection_id,
                                         !.kill_tx = next_transport]]
                 /\ UNCHANGED <<connection, forbid_new_connections, forbid_reconnections,
                                lock_holder, blocked, killed, streams>>

\* lines 296-303: after peer.connect, store the new Connection
connect_stored(t) ==
    /\ CanResume(t, "await_peer_connect")
    /\ UNCHANGED netvars
    /\ IF lock_holder # 0
       THEN BlockOn(t, "connect", task[t].opts)
       ELSE /\ connection' = <<Connection(task[t].id, task[t].id,
                                          task[t].opts.connection_token, task[t].kill_tx)>>
            /\ task' = [task EXCEPT ![t] =
                    [Finished("connect", task[t].opts, "ok") EXCEPT !.id = task[t].id,
                                                                    !.kill_tx = task[t].kill_tx]]
            /\ streams' = drop_incoming(connection, streams)
            /\ UNCHANGED <<forbid_new_connections, forbid_reconnections, lock_holder, blocked,
                           peer_connections, next_connection_id, next_transport, killed>>

\* mutant: the reconnect stores a connection of its own
set_kill_tx_and_incoming(conn, kill_tx) ==
    <<[conn[1] EXCEPT !.kill_tx = kill_tx, !.incoming = kill_tx]>>

\* line 283: connection.kill_tx = kill_tx, through the guard's as_mut()
set_kill_tx(conn, kill_tx) == <<[conn[1] EXCEPT !.kill_tx = kill_tx]>>

\* mutant: the kill sink is assigned before the result of peer.reconnect is looked at
after_reconnect_assigned_first(conn, kill_tx, ok) == set_kill_tx(conn, kill_tx)

\* lines 282-283: `?` returns the error before the assignment is reached
after_reconnect(conn, kill_tx, ok) == IF ok THEN set_kill_tx(conn, kill_tx) ELSE conn

\* lines 282-285: after peer.reconnect, `?`, replace the kill sink, drop the guard
connect_reconnected(t) ==
    /\ CanResume(t, "await_peer_reconnect")
    /\ UNCHANGED netvars
    /\ lock_holder' = 0
    /\ connection' = after_reconnect(connection, task[t].kill_tx, task[t].reconnected)
    /\ IF task[t].reconnected
       THEN task' = [task EXCEPT ![t] =
                    [Finished("connect", task[t].opts, "ok") EXCEPT !.id = task[t].id,
                                                                    !.kill_tx = task[t].kill_tx]]
       ELSE task' = [task EXCEPT ![t] = Finished("connect", task[t].opts, ReconnectFailed)]
    /\ UNCHANGED <<forbid_new_connections, forbid_reconnections, blocked,
                   peer_connections, next_connection_id, next_transport, killed, streams>>

\* disconnect(), line 260: connection_id(), then peer.disconnect(id).await
disconnect(t) ==
    /\ CanStart(t)
    /\ UNCHANGED netvars
    /\ IF lock_holder # 0
       THEN BlockOn(t, "disconnect", NoOptions)
       ELSE IF connection = <<>>
       THEN EndWith(t, "disconnect", NoOptions, NotConnected)
       ELSE /\ peer_connections' = peer_connections \ {connection[1].id}
            /\ task' = [task EXCEPT ![t] =
                    [IdleTask EXCEPT !.pc = "await_peer_disconnect", !.op = "disconnect",
                                     !.id = connection[1].id]]
            /\ UNCHANGED <<connection, forbid_new_connections, forbid_reconnections,
                           lock_holder, blocked, next_connection_id, next_transport, killed,
                           streams>>

\* mutant: the stored connection is looked at, not taken
take_as_ref(conn) == conn

\* Option::take: whatever is stored is removed
take(conn) == <<>>

\* line 261: self.connection.lock().take()
disconnect_taken(t) ==
    /\ CanResume(t, "await_peer_disconnect")
    /\ UNCHANGED netvars
    /\ IF lock_holder # 0
       THEN BlockOn(t, "disconnect", NoOptions)
       ELSE /\ connection' = take(connection)
            /\ streams' = drop_incoming(connection, streams)
            /\ task' = [task EXCEPT ![t] =
                    [Finished("disconnect", NoOptions, "ok") EXCEPT !.id = task[t].id]]
            /\ UNCHANGED <<forbid_new_connections, forbid_reconnections, lock_holder, blocked,
                           peer_connections, next_connection_id, next_transport, killed>>

\* mutant: the connection is taken out of the store to be killed
as_mut_taking(conn) == <<>>

\* Option::as_mut: a borrow of what is stored, which stays in place
as_mut(conn) == conn

\* watch::Sender::send(Some(())): the sink has fired
kill_tx_send(sinks, kill_tx) == sinks \cup {kill_tx}

\* kill_connection(), lines 265-267: lock, expect, kill_tx.send(Some(())).await
kill_connection(t) ==
    /\ CanStart(t)
    /\ UNCHANGED netvars
    /\ IF lock_holder # 0
       THEN BlockOn(t, "kill_connection", NoOptions)
       ELSE IF connection = <<>>
       THEN EndWith(t, "kill_connection", NoOptions, NotConnected)
       ELSE /\ connection' = as_mut(connection)
            /\ killed' = kill_tx_send(killed, connection[1].kill_tx)
            /\ lock_holder' = t
            /\ task' = [task EXCEPT ![t] =
                    [IdleTask EXCEPT !.pc = "await_kill_send", !.op = "kill_connection",
                                     !.kill_tx = connection[1].kill_tx]]
            /\ UNCHANGED <<forbid_new_connections, forbid_reconnections, blocked,
                           peer_connections, next_connection_id, next_transport, streams>>

\* line 268: the send completed, the guard is dropped
kill_connection_sent(t) ==
    /\ CanResume(t, "await_kill_send")
    /\ UNCHANGED netvars
    /\ lock_holder' = 0
    /\ task' = [task EXCEPT ![t] =
            [Finished("kill_connection", NoOptions, "ok") EXCEPT !.kill_tx = task[t].kill_tx]]
    /\ UNCHANGED <<connection, forbid_new_connections, forbid_reconnections, blocked,
                   peer_connections, next_connection_id, next_transport, killed, streams>>

\* the four flag stores, lines 308-322
store_flags(forbid_new, forbid_re) ==
    /\ blocked = 0
    /\ ~Aborted
    /\ forbid_new_connections' = forbid_new
    /\ forbid_reconnections' = forbid_re
    /\ UNCHANGED netvars
    /\ UNCHANGED <<connection, lock_holder, blocked, peer_connections, next_connection_id,
                   next_transport, killed, streams, task>>

ForbidNewConnections == store_flags(TRUE, forbid_reconnections)

AllowNewConnections == store_flags(FALSE, forbid_reconnections)

ForbidReconnections == store_flags(forbid_new_connections, TRUE)

AllowReconnections == store_flags(forbid_new_connections, FALSE)

\* Peer::send(id, message): fails if the id is unknown or disconnected
peer_send_ok(id) == id \in peer_connections

\* Peer::respond(receipt, response): the receipt names the connection the
\* request came in on
peer_respond_ok(id) == id \in peer_connections

\* mpsc::Receiver::recv on an empty queue yields None once the peer has
\* dropped the sending half, which it does when it stops routing the id
hung_up(conn) == conn.id \notin peer_connections

\* lines 337-346: the downcast to TypedEnvelope<M>, a panic on another type
downcast(kind, M) == IF kind = M THEN "ok" ELSE UnexpectedType

\* line 358: self.connection.lock().as_ref().expect("not connected").id,
\* for a stored connection
connection_id == connection[1].id

\* send(message), line 325: connection_id(), then peer.send(id, message).await
send(t) ==
    /\ CanStart(t)
    /\ UNCHANGED netvars
    /\ IF lock_holder # 0
       THEN BlockOn(t, "send", NoOptions)
       ELSE IF connection = <<>>
       THEN EndWith(t, "send", NoOptions, NotConnected)
       ELSE /\ task' = [task EXCEPT ![t] =
                    [IdleTask EXCEPT !.pc = "await_peer_send", !.op = "send",
                                     !.reconnected = peer_send_ok(connection_id)]]
            /\ UNCHANGED <<connection, forbid_new_connections, forbid_reconnections,
                           lock_holder, blocked, peer_connections, next_connection_id,
                           next_transport, killed, streams>>

\* line 325: .await.unwrap()
send_unwrapped(t) ==
    /\ CanResume(t, "await_peer_send")
    /\ UNCHANGED netvars
    /\ task' = [task EXCEPT ![t] =
            Finished("send", NoOptions, IF task[t].reconnected THEN "ok" ELSE SendFailed)]
    /\ UNCHANGED <<connection, forbid_new_connections, forbid_reconnections, lock_holder,
                   blocked, peer_connections, next_connection_id, next_transport, killed,
                   streams>>

\* receive::<M>(), lines 329-336: lock, expect, incoming.recv().await.  recv is
\* ready at once when an envelope is queued or the stream has ended; on an
\* empty live stream the call is suspended, the guard still in scope.
FakeServer_receive(t, M) ==
    /\ CanStart(t)
    /\ UNCHANGED netvars
    /\ IF lock_holder # 0
       THEN BlockOn(t, "receive", NoOptions)
       ELSE IF connection = <<>>
       THEN EndWith(t, "receive", NoOptions, NotConnected)
       ELSE IF streams[connection[1].incoming] # <<>>
       THEN /\ streams' = [streams EXCEPT ![connection[1].incoming] = Tail(@)]
            /\ task' = [task EXCEPT ![t] =
                    Finished("receive", NoOptions,
                             downcast(Head(streams[connection[1].incoming]), M))]
            /\ UNCHANGED <<connection, forbid_new_connections, forbid_reconnections,
                           lock_holder, blocked, peer_connections, next_connection_id,
                           next_transport, killed>>
       ELSE IF hung_up(connection[1])
       THEN EndWith(t, "receive", NoOptions, HungUp)
       ELSE /\ lock_holder' = t
            /\ task' = [task EXCEPT ![t] =
                    [IdleTask EXCEPT !.pc = "await_recv", !.op = "receive", !.kind = M]]
            /\ UNCHANGED <<connection, forbid_new_connections, forbid_reconnections,
                           blocked, peer_connections, next_connection_id, next_transport,
                           killed, streams>>

\* lines 336-346: recv() has resolved, the guard is dropped on return
FakeServer_received(t) ==
    /\ CanResume(t, "await_recv")
    /\ UNCHANGED netvars
    /\ streams[connection[1].incoming] # <<>> \/ hung_up(connection[1])
    /\ lock_holder' = 0
    /\ IF streams[connection[1].incoming] # <<>>
       THEN /\ streams' = [streams EXCEPT ![connection[1].incoming] = Tail(@)]
            /\ task' = [task EXCEPT ![t] =
                    Finished("receive", NoOptions,
                             downcast(Head(streams[connection[1].incoming]), task[t].kind))]
       ELSE /\ streams' = streams
            /\ task' = [task EXCEPT ![t] = Finished("receive", NoOptions, HungUp)]
    /\ UNCHANGED <<connection, forbid_new_connections, forbid_reconnections, blocked,
                   peer_connections, next_connection_id, next_transport, killed>>

\* respond(receipt, response), line 354: peer.respond(..).await; the receipt
\* is one of a request that came in on connection id
respond(t, id) ==
    /\ CanStart(t)
    /\ UNCHANGED netvars
    /\ id < next_connection_id
    /\ task' = [task EXCEPT ![t] =
            [IdleTask EXCEPT !.pc = "await_peer_respond", !.op = "respond",
                             !.reconnected = peer_respond_ok(id)]]
    /\ UNCHANGED <<connection, forbid_new_connections, forbid_reconnections, lock_holder,
                   blocked, peer_connections, next_connection_id, next_transport, killed,
                   streams>>

\* line 354: .await.unwrap()
respond_unwrapped(t) ==
    /\ CanResume(t, "await_peer_respond")
    /\ UNCHANGED netvars
    /\ task' = [task EXCEPT ![t] =
            Finished("respond", NoOptions, IF task[t].reconnected THEN "ok" ELSE RespondFailed)]
    /\ UNCHANGED <<connection, forbid_new_connections, forbid_reconnections, lock_holder,
                   blocked, peer_connections, next_connection_id, next_transport, killed,
                   streams>>

\* the client writes a message and the connection's I/O task, run by the same
\* executor, puts it in the incoming stream of a routed connection; the
\* receiving half of the stream is the one in the stored Connection
io_incoming(id, M) ==
    /\ blocked = 0
    /\ ~Aborted
    /\ id \in peer_connections
    /\ connection # <<>>
    /\ connection[1].incoming = id
    /\ Len(streams[id]) < MaxIncoming
    /\ streams' = [streams EXCEPT ![id] = Append(@, M)]
    /\ UNCHANGED netvars
    /\ UNCHANGED <<connection, forbid_new_connections, forbid_reconnections, lock_holder,
                   blocked, peer_connections, next_connection_id, next_transport, killed, task>>

Next ==
    \/ \E id \in Replicas : add_peer(id) /\ UNCHANGED histvars
    \/ \E sender \in Replicas, messages \in MessageBatches :
          broadcast(sender, messages) /\ UNCHANGED histvars
    \/ \E receiver \in Replicas : receive(receiver) /\ UNCHANGED histvars

Spec == Init /\ [][Next]_vars

\* The driving loop of a test: receive is called again and again on the
\* replicas that have something to receive, and the PRNG does not yield the
\* drain length 0 for ever.
drains(receiver) ==
    /\ receive(receiver)
    /\ Len(inboxes'[receiver]) < Len(inboxes[receiver])
    /\ UNCHANGED histvars

DrainSpec == Init /\ [][Next]_vars /\ \A receiver \in Replicas : WF_vars(drains(receiver))

\* The same calls with the history kept: what each replica has been handed by
\* its receive calls, and who sent each element of the log.  The replicas are
\* registered before the first broadcast, each once, as a test does.
register(id) ==
    /\ all_messages = <<>>
    /\ id \notin DOMAIN inboxes
    /\ add_peer(id)
    /\ UNCHANGED histvars

broadcast_logged(sender, messages) ==
    /\ Len(all_messages) + Len(messages) <= MaxStreamLog
    /\ broadcast(sender, messages)
    /\ broadcasters' = broadcasters \o [i \in 1 .. Len(messages) |-> sender]
    /\ UNCHANGED received

receive_logged(receiver) ==
    /\ receive(receiver)
    /\ received' = [received EXCEPT ![receiver] =
                        @ \o drain_taken(inboxes[receiver],
                                         Len(inboxes[receiver]) - Len(inboxes'[receiver]))]
    /\ UNCHANGED broadcasters

StreamNext ==
    \/ \E id \in Replicas : register(id)
    \/ \E sender \in Replicas, messages \in MessageBatches : broadcast_logged(sender, messages)
    \/ \E receiver \in Replicas : receive_logged(receiver)

StreamSpec == Init /\ [][StreamNext]_vars

ServerNext ==
    \/ \E t \in Tasks, opts \in ConnectionOptions : connect(t, opts)
    \/ \E t \in Tasks : connect_stored(t)
    \/ \E t \in Tasks : connect_reconnected(t)
    \/ \E t \in Tasks : disconnect(t)
    \/ \E t \in Tasks : disconnect_taken(t)
    \/ \E t \in Tasks : kill_connection(t)
    \/ \E t \in Tasks : kill_connection_sent(t)
    \/ \E t \in Tasks : send(t)
    \/ \E t \in Tasks : send_unwrapped(t)
    \/ \E t \in Tasks, M \in MessageKinds : FakeServer_receive(t, M)
    \/ \E t \in Tasks : FakeServer_received(t)
    \/ \E t \in Tasks, id \in ConnectionIds : respond(t, id)
    \/ \E t \in Tasks : respond_unwrapped(t)
    \/ \E id \in ConnectionIds, M \in MessageKinds : io_incoming(id, M)
    \/ ForbidNewConnections
    \/ AllowNewConnections
    \/ ForbidReconnections
    \/ AllowReconnections

ServerSpec == Init /\ [][ServerNext]_vars

\* ---------------------------------------------------------------- claim helpers
Positions(v) == 1 .. Len(v)

\* number of envelopes of v that satisfy P
Count(v, P(_)) == Cardinality({i \in Positions(v) : P(v[i])})

\* a is obtained from b by deleting elements
RECURSIVE IsSubseq(_, _)
IsSubseq(a, b) ==
    IF a = <<>> THEN TRUE
    ELSE IF b = <<>> THEN FALSE
    ELSE IF Head(a) = Head(b) THEN IsSubseq(Tail(a), Tail(b))
    ELSE IsSubseq(a, Tail(b))

\* The step is a call broadcast(s, msgs) with msgs non-empty: the log grows by
\* msgs, the envelopes made in the step (call = the old length of the log)
\* name s as their sender, and s's own inbox is as before.  (Evaluating the
\* action broadcast(s, msgs) on every step would enumerate its outcomes anew.)
BroadcastStep(s, msgs) ==
    /\ msgs # <<>>
    /\ all_messages' = all_messages \o msgs
    /\ DOMAIN inboxes' = DOMAIN inboxes
    /\ s \in DOMAIN inboxes => inboxes'[s] = inboxes[s]
    /\ \A r \in DOMAIN inboxes' : \A p \in Positions(inboxes'[r]) :
         inboxes'[r][p].call = Len(all_messages) => inboxes'[r][p].sender = s

\* the step is the call receive(r) / add_peer(id)
ReceiveStep(r) == all_messages' = all_messages /\ receive(r)
AddPeerStep(id) == all_messages' = all_messages /\ returned' = <<>> /\ add_peer(id)

\* ---------------------------------------------------------------- C1
\* C1 (as claimed): after broadcast(s, msgs), in the inbox of every registered
\* r # s, every envelope of s that carries msgs[i] is at a lower index than
\* every envelope of s that carries msgs[j], for i < j and msgs[i] # msgs[j]
\* (the reading most favourable to the claim), whatever the inbox held before.
PayloadFifo(boxes, s, msgs) ==
    \A r \in (DOMAIN boxes) \ {s} :
      \A i \in Positions(msgs), j \in Positions(msgs) :
        (i < j /\ msgs[i] # msgs[j]) =>
          \A p \in Positions(boxes[r]), q \in Positions(boxes[r]) :
            ( /\ boxes[r][p].sender = s /\ boxes[r][p].message = msgs[i]
              /\ boxes[r][q].sender = s /\ boxes[r][q].message = msgs[j] )
            => p < q

C1_FifoWhateverInboxHeld ==
    [][\A msgs \in MessageBatches :
          (all_messages' = all_messages \o msgs /\ msgs # <<>>) =>
            \E s \in Replicas : BroadcastStep(s, msgs) /\ PayloadFifo(inboxes', s, msgs)]_vars

\* C1 (amended): in every inbox, the copies that one broadcast call inserted
\* for an earlier element of its msgs are all at lower indices than the copies
\* the same call inserted for a later element.
C1_FifoWithinCall ==
    \A r \in DOMAIN inboxes :
      \A p \in Positions(inboxes[r]), q \in Positions(inboxes[r]) :
        (inboxes[r][p].call = inboxes[r][q].call /\ inboxes[r][p].seq < inboxes[r][q].seq)
        => p < q

\* a two-message broadcast has been delivered into an inbox that was not
\* empty, one of its elements in several copies
C1_Witness ==
    \E r \in DOMAIN inboxes :
      \E p \in Positions(inboxes[r]), q \in Positions(inboxes[r]), o \in Positions(inboxes[r]) :
        /\ inboxes[r][p].call = inboxes[r][q].call
        /\ inboxes[r][p].seq < inboxes[r][q].seq
        /\ inboxes[r][o].call < inboxes[r][p].call
        /\ Len(inboxes[r]) = 4

\* ---------------------------------------------------------------- C2
NoSelfEnvelope(boxes) ==
    \A r \in DOMAIN boxes : \A i \in Positions(boxes[r]) : boxes[r][i].sender # r

\* C2: no inbox of r holds an envelope sent by r, and what receive(r) returns
\* are the messages of envelopes that r did not send.
C2_NoSelfDelivery ==
    [][ /\ NoSelfEnvelope(inboxes)
        /\ NoSelfEnvelope(inboxes')
        /\ \A r \in Replicas :
             ReceiveStep(r) =>
               \E n \in 0 .. Len(inboxes[r]) :
                 /\ returned' = messages_of(SubSeq(inboxes[r], 1, n))
                 /\ \A i \in 1 .. n : inboxes[r][i].sender # r ]_vars

\* a registered replica has broadcast to another one, and a receive has
\* returned messages
C2_Witness ==
    /\ returned # <<>>
    /\ \E r \in DOMAIN inboxes, r2 \in DOMAIN inboxes :
         /\ r # r2
         /\ \E i \in Positions(inboxes[r2]) : inboxes[r2][i].sender = r

\* ---------------------------------------------------------------- C3
\* C3: broadcast(s, msgs) adds to the inbox of every registered r # s, for
\* each element of msgs, between 1 and 3 envelopes carrying it with sender s,
\* and nothing else; the inbox grows by |msgs| .. 3*|msgs| and the other
\* envelopes keep their order.
Delivered(before, after, s, msgs, base) ==
    \A r \in (DOMAIN before) \ {s} :
       LET fresh(e) == e.call = base
           old(e) == e.call # base
       IN /\ \A i \in Positions(msgs) :
               LET copy(e) == /\ e.call = base /\ e.seq = base + i
                              /\ e.sender = s /\ e.message = msgs[i]
               IN Count(after[r], copy) \in 1 .. 3
          /\ \A p \in Positions(after[r]) :
               fresh(after[r][p]) =>
                 /\ after[r][p].seq \in (base + 1) .. (base + Len(msgs))
                 /\ after[r][p].sender = s
                 /\ after[r][p].message = msgs[after[r][p].seq - base]
          /\ SelectSeq(after[r], old) = before[r]
          /\ Len(after[r]) - Len(before[r]) \in Len(msgs) .. (3 * Len(msgs))

C3_DuplicationBound ==
    [][\A msgs \in MessageBatches :
          (all_messages' = all_messages \o msgs /\ msgs # <<>>) =>
            \E s \in Replicas :
              /\ BroadcastStep(s, msgs)
              /\ Delivered(inboxes, inboxes', s, msgs, Len(all_messages))]_vars

\* one broadcast element reached one replica in 3 copies and another in 1
C3_Witness ==
    \E r1 \in DOMAIN inboxes, r2 \in DOMAIN inboxes :
      \E p \in Positions(inboxes[r1]) :
        LET same(e) == e.seq = inboxes[r1][p].seq
        IN Count(inboxes[r1], same) = 3 /\ Count(inboxes[r2], same) = 1

\* ---------------------------------------------------------------- C4
\* r's inbox loses nothing in the step, or the step is receive(r) and what
\* left the inbox is what was returned
Kept(r) ==
    /\ r \in DOMAIN inboxes'
    /\ \/ IsSubseq(inboxes[r], inboxes'[r])
       \/ /\ ReceiveStep(r)
          /\ \E n \in 0 .. Len(inboxes[r]) :
               /\ inboxes[r] = SubSeq(inboxes[r], 1, n) \o inboxes'[r]
               /\ returned' = messages_of(SubSeq(inboxes[r], 1, n))

\* C4 (as claimed): no call, add_peer included, removes an envelope from an
\* inbox other than receive returning it.
C4_NeverDrops ==
    [][\A r \in DOMAIN inboxes : Kept(r)]_vars

\* C4 (amended): no call removes an envelope from an inbox other than receive
\* returning it, except add_peer(r) on a registered r, which replaces r's
\* inbox by an empty one.
C4_NeverDropsButReAdd ==
    [][\A r \in DOMAIN inboxes :
          \/ Kept(r)
          \/ AddPeerStep(r) /\ inboxes'[r] = <<>>]_vars

\* a receive has returned part of an inbox that a broadcast filled
C4_Witness ==
    /\ returned # <<>>
    /\ \E r \in DOMAIN inboxes : inboxes[r] # <<>> /\ inboxes[r][1].seq > 1
    /\ Len(all_messages) = MaxLog

\* ---------------------------------------------------------------- C5
\* C5: receive(r) removes a prefix of length n, 0 <= n <= len, and returns its
\* messages in order; every such n can happen; the rest of r's inbox, the
\* other inboxes and all_messages stay.
C5_ReceivePrefix ==
    [][ /\ \A r \in DOMAIN inboxes : \A n \in 0 .. Len(inboxes[r]) :
             \E o \in receive_outcomes(inboxes, r) :
               Len(o.taken) = n /\ Len(o.inboxes[r]) = Len(inboxes[r]) - n
        /\ \A r \in Replicas :
             ReceiveStep(r) =>
               /\ DOMAIN inboxes' = DOMAIN inboxes
               /\ \E n \in 0 .. Len(inboxes[r]) :
                    /\ returned' = [i \in 1 .. n |-> inboxes[r][i].message]
                    /\ inboxes'[r] = [i \in 1 .. (Len(inboxes[r]) - n) |-> inboxes[r][n + i]]
               /\ \A o \in (DOMAIN inboxes) \ {r} : inboxes'[o] = inboxes[o]
               /\ all_messages' = all_messages ]_vars

\* a receive returned two messages and left part of the inbox, next to
\* another non-empty inbox
C5_Witness ==
    /\ Len(returned) = 2
    /\ \E r \in DOMAIN inboxes, o \in DOMAIN inboxes :
         r # o /\ inboxes[r] # <<>> /\ inboxes[o] # <<>>
            /\ inboxes[r][1].seq # inboxes[o][1].seq

\* ---------------------------------------------------------------- C6
\* C6: every step appends one batch to all_messages, in order and
\* undeduplicated, and the batch is the one whose elements the step delivered;
\* receive and add_peer leave all_messages alone; so the log is the
\* concatenation of the broadcasts, and every envelope is a copy of the log
\* entry it was made from.
C6_LogIsConcatenation ==
    [][ /\ \E msgs \in MessageBatches : all_messages' = all_messages \o msgs
        /\ \A r \in Replicas : receive(r) => all_messages' = all_messages
        /\ \A r \in Replicas : add_peer(r) => all_messages' = all_messages
        /\ \A r \in DOMAIN inboxes' : \A i \in Positions(inboxes'[r]) :
             /\ inboxes'[r][i].seq \in Positions(all_messages')
             /\ all_messages'[inboxes'[r][i].seq] = inboxes'[r][i].message
             /\ inboxes'[r][i].call >= Len(all_messages) =>
                  \E msgs \in MessageBatches :
                    /\ all_messages' = all_messages \o msgs
                    /\ msgs[inboxes'[r][i].seq - Len(all_messages)] = inboxes'[r][i].message
       ]_vars

\* two broadcasts that repeat a message are both in the log, and a receive
\* has been made since
C6_Witness ==
    /\ all_messages = <<"y", "x", "y">>
    /\ returned # <<>>
    /\ \E r \in DOMAIN inboxes : inboxes[r] # <<>>

\* ---------------------------------------------------------------- C7
\* C7: is_idle() iff every registered inbox is empty; has_unreceived(r) iff
\* r's inbox is non-empty; is_idle() iff no registered r has_unreceived.
C7_IdleIffAllEmpty ==
    /\ is_idle <=> (\A r \in DOMAIN inboxes : inboxes[r] = <<>>)
    /\ \A r \in DOMAIN inboxes : has_unreceived(r) <=> (inboxes[r] # <<>>)
    /\ is_idle <=> (\A r \in DOMAIN inboxes : ~has_unreceived(r))
    /\ (DOMAIN inboxes = {}) => is_idle

\* not idle although the first inbox visited is empty
C7_Witness ==
    /\ ~is_idle
    /\ \E r \in DOMAIN inboxes, o \in DOMAIN inboxes :
         r < o /\ inboxes[r] = <<>> /\ inboxes[o] # <<>>

\* ---------------------------------------------------------------- C8
\* the outcomes in S are a function of the draws that led to them
Functional(S) == Cardinality({o.draws : o \in S}) = Cardinality(S)

\* C8: in every reachable state, what a call makes of the network (the
\* inboxes, and for receive the drained envelopes it returns) is determined
\* by the state, the call and the values the PRNG yields during the call; so
\* two networks given the same calls and the same draws stay equal.
C8_Deterministic ==
    /\ \A sender \in Replicas, messages \in MessageBatches :
         Functional(broadcast_outcomes(inboxes, sender, messages, Len(all_messages), MaxInbox))
    /\ \A receiver \in DOMAIN inboxes : Functional(receive_outcomes(inboxes, receiver))

\* after a broadcast to two replicas and a receive, the next broadcast has
\* outcomes that differ with the draws, for two receivers at once
C8_Witness ==
    /\ returned # <<>>
    /\ \E r1 \in DOMAIN inboxes, r2 \in DOMAIN inboxes :
         /\ r1 # r2
         /\ inboxes[r1] # <<>> /\ inboxes[r2] # <<>>
         /\ inboxes[r1][1].seq = inboxes[r2][1].seq
         /\ \E sender \in Replicas \ {r1, r2} :
              \E o1, o2 \in broadcast_outcomes(inboxes, sender, <<"y">>, Len(all_messages), MaxInbox) :
                /\ o1.inboxes[r1] # o2.inboxes[r1]
                /\ o1.inboxes[r2] # o2.inboxes[r2]

\* ---------------------------------------------------------------- C9
ServerUntouched ==
    UNCHANGED <<connection, peer_connections, next_connection_id, next_transport, killed,
                streams, lock_holder, forbid_new_connections, forbid_reconnections>>

\* C9: a non-reconnect connect made while forbid_new_connections is set ends
\* with "server is forbidding connections", makes no peer connection and
\* leaves the stored connection; made while it is clear (after
\* allow_new_connections) it goes on to peer.connect, whatever
\* forbid_reconnections is, and when it has stored its connection it returns
\* Ok and the stored token is opts.connection_token.
C9_ForbidNewConnections ==
    [][ /\ \A t \in Tasks, opts \in ConnectionOptions :
             (~opts.is_reconnection /\ connect(t, opts)) =>
               IF forbid_new_connections
               THEN /\ task'[t].pc = "done"
                    /\ task'[t].result = ForbiddingConnections
                    /\ ServerUntouched
               ELSE /\ task'[t].pc = "await_peer_connect"
                    /\ connection' = connection
        /\ \A t \in Tasks :
             (connect_stored(t) /\ blocked' = 0) =>
               /\ task'[t].result = "ok"
               /\ connection' # <<>>
               /\ connection'[1].token = task[t].opts.connection_token
               /\ connection'[1].id \in peer_connections' ]_vars

\* one connect was refused although a connection is stored, another one made
\* after allow_new_connections stored its connection while reconnections
\* were forbidden
C9_Witness ==
    \E t \in Tasks, u \in Tasks :
      /\ task[t].op = "connect" /\ task[t].result = ForbiddingConnections
      /\ task[u].op = "connect" /\ task[u].result = "ok" /\ ~task[u].opts.is_reconnection
      /\ connection # <<>>
      /\ connection[1].token = task[u].opts.connection_token
      /\ connection[1].id = 2
      /\ forbid_reconnections
      /\ ~forbid_new_connections

\* ---------------------------------------------------------------- C10
\* C10: a reconnect attempt first fails with "server is forbidding
\* reconnections" if forbid_reconnections is set, whatever is stored; else
\* (once it has the connection lock) fails with "cannot re-establish
\* connection" if nothing is stored or the stored token differs; else goes on
\* to peer.reconnect.  forbid_new_connections plays no part.
C10_ReconnectDecision ==
    [][\A t \in Tasks, opts \in ConnectionOptions :
          (opts.is_reconnection /\ connect(t, opts)) =>
            IF forbid_reconnections
            THEN /\ task'[t].pc = "done"
                 /\ task'[t].result = ForbiddingReconnections
                 /\ ServerUntouched
            ELSE IF blocked' # 0
            THEN lock_holder # 0 /\ connection' = connection
            ELSE IF connection = <<>> \/ connection[1].token # opts.connection_token
            THEN /\ task'[t].pc = "done"
                 /\ task'[t].result = CannotReestablish
                 /\ ServerUntouched
            ELSE /\ task'[t].pc = "await_peer_reconnect"
                 /\ task'[t].id = connection[1].id
                 /\ connection' = connection ]_vars

\* with new connections forbidden, one reconnect was refused for its token
\* and another one is at peer.reconnect
C10_Witness ==
    \E t \in Tasks, u \in Tasks :
      /\ task[t].op = "connect" /\ task[t].result = CannotReestablish
      /\ task[t].opts.is_reconnection
      /\ connection # <<>> /\ connection[1].token # task[t].opts.connection_token
      /\ task[u].pc = "await_peer_reconnect"
      /\ forbid_new_connections

\* ---------------------------------------------------------------- C11
\* a reconnect suspended at peer.reconnect holds the lock on the connection
\* whose token it matched
ReconnectInFlight(t) ==
    task[t].pc = "await_peer_reconnect" =>
      /\ lock_holder = t
      /\ connection # <<>>
      /\ connection[1].id = task[t].id
      /\ connection[1].token = task[t].opts.connection_token

\* C11: a reconnect that succeeds leaves the stored connection's id, token and
\* incoming stream as they were when it was called, puts the kill sink of its
\* own new transport in place of the old one, and allocates no ConnectionId,
\* neither when it is called nor when it returns; nothing touches the stored
\* connection in between.
C11_ReconnectKeepsConnection ==
    [][ /\ \A t \in Tasks : ReconnectInFlight(t)
        /\ \A t \in Tasks :
             (task[t].pc = "await_peer_reconnect" /\ ~connect_reconnected(t)) =>
               connection' = connection
        /\ \A t \in Tasks, opts \in ConnectionOptions :
             (opts.is_reconnection /\ connect(t, opts)) =>
               /\ next_connection_id' = next_connection_id
               /\ peer_connections' = peer_connections
               /\ connection' = connection
               /\ task'[t].pc = "await_peer_reconnect" => task'[t].kill_tx = next_transport
        /\ \A t \in Tasks :
             (connect_reconnected(t) /\ task'[t].result = "ok") =>
               /\ Len(connection') = 1
               /\ connection'[1].id = connection[1].id
               /\ connection'[1].token = connection[1].token
               /\ connection'[1].incoming = connection[1].incoming
               /\ connection'[1].kill_tx = task[t].kill_tx
               /\ connection'[1].kill_tx # connection[1].kill_tx
               /\ next_connection_id' = next_connection_id
               /\ peer_connections' = peer_connections ]_vars

\* a reconnect succeeded after kill_connection fired the sink of the first
\* transport: the connection still has the first id, with a later kill sink
C11_Witness ==
    \E t \in Tasks :
      /\ task[t].op = "connect" /\ task[t].opts.is_reconnection /\ task[t].result = "ok"
      /\ connection # <<>>
      /\ connection[1].id = 1 /\ connection[1].incoming = 1
      /\ connection[1].token = task[t].opts.connection_token
      /\ connection[1].kill_tx = task[t].kill_tx
      /\ connection[1].kill_tx > 1
      /\ 1 \in killed
      /\ next_connection_id = 2

\* ---------------------------------------------------------------- C12
\* a disconnect has returned and nothing is stored
Disconnected ==
    /\ connection = <<>>
    /\ \E u \in Tasks : task[u].op = "disconnect" /\ task[u].result = "ok"

\* C12 (as claimed): once disconnect has returned and while nothing is stored,
\* every reconnect attempt fails with "cannot re-establish connection".
C12_ReconnectCannotReestablish ==
    [][\A t \in Tasks, opts \in ConnectionOptions :
          (Disconnected /\ opts.is_reconnection /\ connect(t, opts)) =>
            task'[t].result = CannotReestablish]_vars

\* C12 (amended): disconnect removes the stored connection's id from the peer
\* and then clears the store.  While nothing is stored the connection lock is
\* free, every reconnect attempt returns an error and stores nothing ("server
\* is forbidding reconnections" if forbid_reconnections is set, "cannot
\* re-establish connection" otherwise, whatever its token), only a
\* non-reconnect connect ends that phase, and a non-reconnect connect made
\* with new connections allowed goes to peer.connect for a new id and, on
\* completing while nothing is stored, stores a connection with that id and
\* returns Ok.
C12_DisconnectThenResume ==
    [][ /\ \A t \in Tasks :
             (disconnect(t) /\ task'[t].pc = "await_peer_disconnect") =>
               /\ connection # <<>>
               /\ task'[t].id = connection[1].id
               /\ peer_connections' = peer_connections \ {connection[1].id}
               /\ connection' = connection
        /\ \A t \in Tasks :
             (disconnect_taken(t) /\ blocked' = 0) =>
               /\ task'[t].result = "ok"
               /\ connection' = <<>>
               /\ task[t].id \notin peer_connections'
        /\ connection = <<>> => lock_holder = 0
        /\ \A t \in Tasks, opts \in ConnectionOptions :
             (connection = <<>> /\ opts.is_reconnection /\ connect(t, opts)) =>
               /\ task'[t].pc = "done"
               /\ task'[t].result =
                     IF forbid_reconnections THEN ForbiddingReconnections ELSE CannotReestablish
               /\ ServerUntouched
        /\ (connection = <<>> /\ connection' # <<>>) =>
               \E t \in Tasks : connect_stored(t) /\ ~task[t].opts.is_reconnection
        /\ \A t \in Tasks, opts \in ConnectionOptions :
             (connection = <<>> /\ ~opts.is_reconnection /\ ~forbid_new_connections
                /\ connect(t, opts)) =>
               /\ task'[t].pc = "await_peer_connect"
               /\ task'[t].id \notin peer_connections
               /\ task'[t].id \in peer_connections'
               /\ connection' = <<>>
        /\ \A t \in Tasks :
             (connection = <<>> /\ connect_stored(t)) =>
               /\ task'[t].result = "ok"
               /\ connection' = <<Connection(task[t].id, task[t].id,
                                              task[t].opts.connection_token, task[t].kill_tx)>>
               /\ task[t].id \in peer_connections' ]_vars

\* after a disconnect, a reconnect with the original token was refused and a
\* new connect has stored the second connection
C12_Witness ==
    \E t \in Tasks, u \in Tasks :
      /\ t # u
      /\ task[t].op = "connect" /\ task[t].opts.is_reconnection
      /\ task[t].result = CannotReestablish
      /\ task[u].op = "connect" /\ ~task[u].opts.is_reconnection /\ task[u].result = "ok"
      /\ task[u].opts.connection_token = task[t].opts.connection_token
      /\ connection # <<>> /\ connection[1].id = 2
      /\ peer_connections = {2}

\* ---------------------------------------------------------------- C13
\* C13: kill_connection on a stored connection fires that connection's kill
\* sink and nothing else: from its call to its return the stored connection,
\* the ids the peer routes and both flags are as before, no id or transport
\* is made; so afterwards a reconnect is still decided by the stored token.
C13_KillOnlyFiresSink ==
    [][ /\ \A t \in Tasks :
             (kill_connection(t) /\ task'[t].pc = "await_kill_send") =>
               /\ connection # <<>>
               /\ connection' = connection
               /\ killed' = killed \cup {connection[1].kill_tx}
               /\ UNCHANGED <<peer_connections, forbid_new_connections, forbid_reconnections,
                              next_connection_id, next_transport>>
        /\ \A t \in Tasks :
             (task[t].pc = "await_kill_send" /\ task'[t].pc = "await_kill_send") =>
               connection' = connection
        /\ \A t \in Tasks :
             kill_connection_sent(t) =>
               /\ task'[t].result = "ok"
               /\ connection # <<>>
               /\ connection' = connection
               /\ connection[1].kill_tx \in killed'
               /\ UNCHANGED <<peer_connections, forbid_new_connections, forbid_reconnections,
                              next_connection_id, next_transport, killed>>
        /\ \A t \in Tasks, opts \in ConnectionOptions :
             ( /\ connection # <<>> /\ connection[1].kill_tx \in killed
               /\ lock_holder = 0 /\ ~forbid_reconnections
               /\ opts.is_reconnection /\ connect(t, opts) ) =>
               IF opts.connection_token = connection[1].token
               THEN task'[t].pc = "await_peer_reconnect" /\ task'[t].id = connection[1].id
               ELSE task'[t].result = CannotReestablish ]_vars

\* kill_connection has returned: the sink of the stored connection has fired,
\* the connection is stored and routed, and a reconnect with its token is at
\* peer.reconnect while one with another token was refused
C13_Witness ==
    \E t \in Tasks, u \in Tasks :
      /\ task[t].pc = "await_peer_reconnect"
      /\ task[u].op = "connect" /\ task[u].result = CannotReestablish
      /\ connection # <<>>
      /\ connection[1].kill_tx \in killed
      /\ connection[1].id \in peer_connections
      /\ connection[1].token = task[t].opts.connection_token
      /\ forbid_new_connections

\* ---------------------------------------------------------------- C14
\* the places where a FakeServer call is suspended
Awaits == {"await_peer_connect", "await_peer_reconnect", "await_peer_disconnect",
           "await_kill_send", "await_peer_send", "await_recv", "await_peer_respond"}

\* C14: no call that is suspended at an await holds the connection lock, and
\* no call is stuck in lock() on the executor thread.
C14_NeverBlocksExecutor ==
    /\ \A t \in Tasks : task[t].pc \in Awaits => lock_holder # t
    /\ blocked = 0

\* the case named in the claim: a receive is pending on an empty incoming
\* stream, and a kill_connection or a reconnect started meanwhile is stuck
StuckBehindReceive ==
    \E t \in Tasks, u \in Tasks :
      /\ task[u].pc = "await_recv" /\ lock_holder = u
      /\ streams[connection[1].incoming] = <<>>
      /\ blocked = t
      /\ task[t].op \in {"kill_connection", "connect"}

\* ---------------------------------------------------------------- C15
\* the error values a connection attempt can return
Denials == {ForbiddingConnections, ForbiddingReconnections, CannotReestablish, ReconnectFailed}

\* C15: with nothing stored, send, receive, disconnect (through
\* connection_id) and kill_connection panic with "not connected", changing
\* nothing, and nothing runs after the panic; "not connected" arises only with
\* nothing stored; a connection attempt that is denied returns an error value
\* and the test goes on.
C15_UnboundUseIsFatal ==
    [][ /\ ~Aborted
        /\ \A t \in Tasks :
             ( /\ connection = <<>>
               /\ \/ send(t)
                  \/ \E M \in MessageKinds : FakeServer_receive(t, M)
                  \/ disconnect(t)
                  \/ kill_connection(t) ) =>
               /\ task'[t].result = NotConnected
               /\ Aborted'
               /\ ServerUntouched
        /\ \A t \in Tasks :
             (task'[t].result = NotConnected /\ task'[t] # task[t]) => connection = <<>>
        /\ \A t \in Tasks, opts \in ConnectionOptions :
             (connect(t, opts) /\ task'[t].pc = "done") =>
               /\ task'[t].result \in Denials
               /\ ~Aborted'
               /\ ServerUntouched ]_vars

\* after a connection was made and dropped by disconnect, a connection attempt
\* was denied and returned, and then a send panicked
C15_Witness ==
    \E t \in Tasks, u \in Tasks :
      /\ task[t].op = "send" /\ task[t].result = NotConnected
      /\ task[u].op = "connect" /\ task[u].result \in Denials
      /\ connection = <<>>
      /\ next_connection_id = 2
      /\ peer_connections = {}

\* ---------------------------------------------------------------- C16
\* among the envelopes of one sender, a copy of an earlier element of the log
\* is never behind a copy of a later one
PerSenderOrdered(v) ==
    \A p \in Positions(v), q \in Positions(v) :
      (p < q /\ v[p].sender = v[q].sender) => v[p].seq <= v[q].seq

\* duplicates collapsed by first occurrence
RECURSIVE collapse(_, _)
collapse(v, seen) ==
    IF v = <<>> THEN <<>>
    ELSE IF Head(v) \in seen THEN collapse(Tail(v), seen)
    ELSE <<Head(v)>> \o collapse(Tail(v), seen \cup {Head(v)})

Distinct(v) == \A i \in Positions(v), j \in Positions(v) : v[i] = v[j] => i = j

\* every envelope handed to r is a copy of the log element its tag names,
\* sent by the replica that broadcast that element
TrulyTagged(v, log, senders) ==
    \A p \in Positions(v) :
      /\ v[p].seq \in Positions(log)
      /\ log[v[p].seq] = v[p].message
      /\ senders[v[p].seq] = v[p].sender

StreamOrder(got, boxes, log, senders) ==
    /\ \A r \in Replicas :
         /\ TrulyTagged(got[r], log, senders)
         /\ PerSenderOrdered(got[r])
    /\ \A r \in DOMAIN boxes : PerSenderOrdered(got[r] \o boxes[r])
    /\ \A r \in DOMAIN boxes : \A s \in Replicas \ {r} :
         ( /\ log # <<>>
           /\ boxes[r] = <<>>
           /\ \A i \in Positions(senders) : senders[i] = s
           /\ Distinct(log) ) =>
           collapse(messages_of(got[r]), {}) = log

\* C16: with the replicas registered before the first broadcast, after every
\* call: what each replica has been handed so far, and what it has been
\* handed followed by what its inbox holds, has the copies of each sender in
\* the order that sender broadcast them, across calls and within a call; the
\* history grows by what receive returns; and when all broadcasts came from
\* one sender s and were distinct, a replica r # s whose inbox is empty has
\* been handed, duplicates collapsed by first occurrence, exactly the log.
C16_PerSenderStreamOrder ==
    [][ /\ StreamOrder(received', inboxes', all_messages', broadcasters')
        /\ \A r \in Replicas :
             received'[r] # received[r] =>
               messages_of(received'[r]) = messages_of(received[r]) \o returned' ]_vars

\* replica r has been handed, in two receives, the copies of a two-message
\* broadcast of one sender, one message more than once, and its inbox is empty
C16_Witness ==
    \E r \in DOMAIN inboxes :
      /\ inboxes[r] = <<>>
      /\ all_messages = <<"x", "y">>
      /\ Len(received[r]) >= 3
      /\ Len(returned) \in 1 .. (Len(received[r]) - 1)
      /\ collapse(messages_of(received[r]), {}) = <<"x", "y">>
      /\ messages_of(received[r]) # <<"x", "y">>

\* ---------------------------------------------------------------- C17
\* m is the position right after the last envelope of s in inbox, 0 if none
AfterLastOf(inbox, s, m) ==
    /\ m \in 0 .. Len(inbox)
    /\ m > 0 => inbox[m].sender = s
    /\ \A i \in (m + 1) .. Len(inbox) : inbox[i].sender # s

\* the insertion indices of k copies: each in m ..= the length the inbox has
\* when the copy is inserted
Window(m, len, k) ==
    IF k = 1 THEN {<<p1>> : p1 \in m .. len}
    ELSE IF k = 2 THEN {<<p1, p2>> : p1 \in m .. len, p2 \in m .. (len + 1)}
    ELSE {<<p1, p2, p3>> : p1 \in m .. len, p2 \in m .. (len + 1), p3 \in m .. (len + 2)}

\* the numbers of copies looked at: all of 1..3 for an inbox of up to 2
\* envelopes, 1 and 2 for a longer one (3 copies there have 210 placements)
CopiesLookedAt(inbox) == IF Len(inbox) <= 2 THEN 3 ELSE 2

\* what broadcast does with one message `e` of sender s in the inbox of r
Copies(inbox, s, e) ==
    deliver_message({[inbox |-> inbox, draws |-> <<>>]}, s, e.message, e.call, e.seq - e.call,
                    Len(inbox) + CopiesLookedAt(inbox))

\* C17: in every reachable inbox of r and for every sender s # r, the outcomes
\* of delivering one message are, for each k in 1..3, exactly one per sequence
\* of k indices drawn from m ..= current length, with m the position after the
\* last envelope of s (0 if none) in the inbox as it was before the first
\* copy; the copies sit at the drawn places, the old envelopes keep their
\* order, none of s's old envelopes is behind a copy, and every envelope of
\* another sender that is behind m can end up behind a copy.
C17_InsertionWindow ==
    \A r \in DOMAIN inboxes : \A s \in Replicas \ {r} :
      LET inbox == inboxes[r]
          e == Envelope("y", s, Len(all_messages), Len(all_messages) + 1)
          old(x) == x # e
      IN \A m \in {min_index(inbox, s)} : \A out \in {Copies(inbox, s, e)} :
         /\ AfterLastOf(inbox, s, m)
         /\ {o.draws : o \in out}
              = UNION {{<<k>> \o w : w \in Window(m, Len(inbox), k)}
                         : k \in 1 .. CopiesLookedAt(inbox)}
         /\ Cardinality(out) = Cardinality({o.draws : o \in out})
         /\ \A o \in out :
              /\ Len(o.inbox) = Len(inbox) + o.draws[1]
              /\ SelectSeq(o.inbox, old) = inbox
              /\ o.inbox[o.draws[Len(o.draws)] + 1] = e
              /\ \A p \in Positions(o.inbox) : o.inbox[p] = e => p > m
         /\ \A i \in (m + 1) .. Len(inbox) :
              \E o \in out :
                o.draws = <<1, i - 1>> /\ o.inbox[i] = e /\ o.inbox[i + 1] = inbox[i]

\* an inbox that holds an envelope of s followed by one of another sender: a
\* further message of s can go before or behind the latter, not before the former
C17_Witness ==
    \E r \in DOMAIN inboxes : \E s \in Replicas \ {r} :
      /\ Len(inboxes[r]) >= 2
      /\ min_index(inboxes[r], s) \in 1 .. (Len(inboxes[r]) - 1)
      /\ inboxes[r][1].sender # s

\* ---------------------------------------------------------------- C18
\* C18: when receive keeps being called on the replicas with a non-empty
\* inbox and keeps drawing a non-zero drain length, the network comes back to
\* is_idle() after the last broadcast (the log is bounded, so broadcasts that
\* deliver anything end); and a receive never makes any inbox longer.
C18_DrainsToIdle ==
    /\ []<>is_idle
    /\ [][\A r \in Replicas :
            ReceiveStep(r) =>
              \A o \in DOMAIN inboxes : Len(inboxes'[o]) <= Len(inboxes[o])]_vars

\* the log is full and two inboxes still hold envelopes: only receives can
\* bring the network to idle from here
C18_Witness ==
    /\ Len(all_messages) = MaxLog
    /\ ~is_idle
    /\ \E r \in DOMAIN inboxes, o \in DOMAIN inboxes :
         r # o /\ Len(inboxes[r]) = MaxInbox /\ Len(inboxes[o]) >= 2

\* ---------------------------------------------------------------- C19
\* the step is one of task t's connect call
ConnectStep(t) == task'[t] # task[t] /\ task'[t].op = "connect"

\* C19: a connect that returns an error leaves the stored connection (its
\* presence, id, token, incoming and kill sink) as it is, and no step of any
\* connect changes a flag; a reconnect that fails in peer.reconnect has held
\* the connection lock since it was called, so the stored connection is the
\* one it found.
C19_FailedConnectChangesNothing ==
    [][\A t \in Tasks :
          /\ (ConnectStep(t) /\ task'[t].pc = "done" /\ task'[t].result \in Denials) =>
               /\ connection' = connection
               /\ streams' = streams
               /\ peer_connections' = peer_connections
               /\ killed' = killed
          /\ ConnectStep(t) =>
               UNCHANGED <<forbid_new_connections, forbid_reconnections>>
          /\ (task[t].pc = "await_peer_reconnect" /\ ~task[t].reconnected) =>
               /\ lock_holder = t
               /\ connection' = connection ]_vars

\* a reconnect with the stored token has failed in peer.reconnect (the peer had
\* dropped the id for a disconnect that is still suspended): the stored
\* connection has the kill sink it had, although a new transport was made
C19_Witness ==
    \E t \in Tasks, u \in Tasks :
      /\ task[t].op = "connect" /\ task[t].result = ReconnectFailed
      /\ task[u].pc = "await_peer_disconnect"
      /\ connection # <<>>
      /\ connection[1].kill_tx = 1
      /\ connection[1].token = task[t].opts.connection_token
      /\ next_transport = 3
      /\ lock_holder = 0

\* ---------------------------------------------------------------- C20
\* what disconnect's take() removes is the connection whose id the call took
\* from the peer before its await
ClearsItsOwn ==
    \A t \in Tasks :
      (disconnect_taken(t) /\ blocked' = 0) =>
        connection # <<>> /\ connection[1].id = task[t].id

\* C20: the connection that disconnect clears from the store is the one whose
\* id it removed from the peer, also when a connect has stored another one at
\* disconnect's await; and after every step a stored connection's id is one
\* the peer routes.
C20_DisconnectConsistent ==
    [][ /\ ClearsItsOwn
        /\ connection' # <<>> => connection'[1].id \in peer_connections' ]_vars

\* the interleaving named in the claim, on its own: disconnect resumes after
\* a connect has stored a connection with another id
DisconnectClearsItsOwn == [][ClearsItsOwn]_vars
====
